---------------------------- MODULE Spec2Model ----------------------------
(***************************************************************************)
(* A model of competitions/models.py: the stored Competition, Season and   *)
(* Series records, Series.clean (the only code of the file that writes),   *)
(* and the derived queries get_active_season, get_series_nearest_deadline, *)
(* is_past_submission_deadline, is_nearest_deadline and get_competitors.   *)
(*                                                                         *)
(* Time is a counter; now() is read at a granularity at which one handler  *)
(* runs within a single instant.  A primary key is the row's position in   *)
(* its table (rows are never deleted by this file, and the database hands  *)
(* out keys in increasing order).  The order in which the database returns *)
(* rows whose sort keys are equal is unspecified: every query that sorts   *)
(* takes a tie-break ranking tb, over which actions and properties         *)
(* quantify.                                                               *)
(***************************************************************************)
EXTENDS Integers, Sequences, FiniteSets, TLC

VARIABLES
    now,            \* the value django.utils.timezone.now() returns
    seasons,        \* Season table: sequence of rows, pk = index
    series,         \* Series table: sequence of rows, pk = index
    problemsets,    \* ProblemSet table: the set of its pks
    problems,       \* problemset.problems: set of <<problemset pk, problem pk>>
    usersolutions,  \* UserSolution table: sequence of [user, problem], pk = index
    last            \* the call made at the current instant, and what it returned

vars == <<now, seasons, series, problemsets, problems, usersolutions, last>>

stored == <<seasons, series, problemsets, problems, usersolutions>>

-----------------------------------------------------------------------------
(* Bounds of the model *)

\* now() runs over 0..MaxTime, and so do the deadlines, starts and ends
MaxTime == 2

\* rows of the Series table when a table is drawn as a whole
MaxSeries == 2

\* rows of the UserSolution table when a table is drawn as a whole
MaxSolutions == 3

Times == 0..MaxTime

\* keys the Series table can hand out while clean is inserting
SeriesPks == {1, 2}

CompetitionPks == {1, 2}

ProblemPks == {1, 2, 3}

Users == {"ann", "bob"}

Numbers == {1, 2}

Years == {2013, 2014}

BoundedSeq(S, n) == UNION { [1..k -> S] : k \in 0..n }

-----------------------------------------------------------------------------
(* Python's None, and a NULL column *)
None == -1

(* The messages of the three ValidationErrors of Series.clean *)
MsgDeadlineMissing == "Submission deadline must be set to make the series active"

MsgProblemsetMissing == "Corresponding set of problems must be set to make the series active"

MsgPastDeadline == "Series that is past its submission deadline cannot be made active"

ValidationErrors == {MsgDeadlineMissing, MsgProblemsetMissing, MsgPastDeadline}

(* Raised by the database when a row breaks a declared constraint *)
IntegrityError == "IntegrityError"

(* Raised by None.problems *)
AttributeError == "AttributeError"

NoError == "ok"

-----------------------------------------------------------------------------
(* Series: the fields, an in-memory instance, and the constraints declared  *)
(* on the table                                                             *)

Fields(self) ==
    [season |-> self.season, number |-> self.number,
     problemset |-> self.problemset,
     submission_deadline |-> self.submission_deadline,
     is_active |-> self.is_active]

(* The instances a caller can hand to clean: a new one (pk None) or one     *)
(* loaded from the table and then edited.  A foreign key names a row that   *)
(* exists.                                                                  *)
Instances ==
    [pk : {None} \cup DOMAIN series,
     season : DOMAIN seasons, number : Numbers,
     problemset : {None} \cup problemsets,
     submission_deadline : {None} \cup Times, is_active : BOOLEAN]

(* submission_deadline = models.DateTimeField(): NOT NULL *)
NotNullViolation(self) == self.submission_deadline = None

(* unique_together = ('season', 'number') *)
UniqueTogetherViolation(self, series_set) ==
    \E pk \in DOMAIN series_set :
        /\ pk # self.pk
        /\ series_set[pk].season = self.season
        /\ series_set[pk].number = self.number

(* problemset = models.OneToOneField(..., null=True): unique when not NULL *)
OneToOneViolation(self, series_set) ==
    /\ self.problemset # None
    /\ \E pk \in DOMAIN series_set :
           pk # self.pk /\ series_set[pk].problemset = self.problemset

(* super(Series, self).save(): UPDATE the row of self.pk, or INSERT a new   *)
(* row under the next key; the database refuses a row that breaks a         *)
(* constraint and stores nothing.                                           *)
save(self, series_set) ==
    IF \/ NotNullViolation(self)
       \/ UniqueTogetherViolation(self, series_set)
       \/ OneToOneViolation(self, series_set)
    THEN [raised |-> IntegrityError, series |-> series_set, pk |-> self.pk]
    ELSE IF self.pk \in DOMAIN series_set
         THEN [raised |-> NoError,
               series |-> [series_set EXCEPT ![self.pk] = Fields(self)],
               pk |-> self.pk]
         ELSE [raised |-> NoError,
               series |-> Append(series_set, Fields(self)),
               pk |-> Len(series_set) + 1]

\* Mutant: the comparison of is_past_submission_deadline turned round
is_past_submission_deadline_Reversed(self, t) == t < self.submission_deadline

is_past_submission_deadline(self, t) == t > self.submission_deadline

\* Mutant: clean without its check of the problem set
clean_NoProblemsetCheck(self, series_set, t) ==
    IF self.is_active /\ self.submission_deadline = None
    THEN [raised |-> MsgDeadlineMissing, series |-> series_set, pk |-> self.pk]
    ELSE IF self.is_active /\ is_past_submission_deadline(self, t)
    THEN [raised |-> MsgPastDeadline, series |-> series_set, pk |-> self.pk]
    ELSE save(self, series_set)

\* Mutant: clean that only validates, as a clean method usually does
clean_ValidateOnly(self, series_set, t) ==
    IF self.is_active /\ self.submission_deadline = None
    THEN [raised |-> MsgDeadlineMissing, series |-> series_set, pk |-> self.pk]
    ELSE IF self.is_active /\ self.problemset = None
    THEN [raised |-> MsgProblemsetMissing, series |-> series_set, pk |-> self.pk]
    ELSE IF self.is_active /\ is_past_submission_deadline(self, t)
    THEN [raised |-> MsgPastDeadline, series |-> series_set, pk |-> self.pk]
    ELSE [raised |-> NoError, series |-> series_set, pk |-> self.pk]

\* Mutant: clean that saves first and validates afterwards
clean_SaveFirst(self, series_set, t) ==
    LET out == save(self, series_set)
    IN  IF self.is_active /\ self.submission_deadline = None
        THEN [out EXCEPT !.raised = MsgDeadlineMissing]
        ELSE IF self.is_active /\ self.problemset = None
        THEN [out EXCEPT !.raised = MsgProblemsetMissing]
        ELSE IF self.is_active /\ is_past_submission_deadline(self, t)
        THEN [out EXCEPT !.raised = MsgPastDeadline]
        ELSE out

(* Series.clean: the three checks for an active series, then the save *)
clean(self, series_set, t) ==
    IF self.is_active /\ self.submission_deadline = None
    THEN [raised |-> MsgDeadlineMissing, series |-> series_set, pk |-> self.pk]
    ELSE IF self.is_active /\ self.problemset = None
    THEN [raised |-> MsgProblemsetMissing, series |-> series_set, pk |-> self.pk]
    ELSE IF self.is_active /\ is_past_submission_deadline(self, t)
    THEN [raised |-> MsgPastDeadline, series |-> series_set, pk |-> self.pk]
    ELSE save(self, series_set)


-----------------------------------------------------------------------------
(* What the object-relational layer does for the queries below *)

\* The ways the database may rank rows whose sort keys are equal
TieBreaks(S) == Permutations(S)

LexLess(a, b) ==
    \E i \in 1..Len(a) : a[i] < b[i] /\ \A j \in 1..(i - 1) : a[j] = b[j]

Before(x, y, key, tb) ==
    LexLess(key[x], key[y]) \/ (key[x] = key[y] /\ tb[x] < tb[y])

\* ORDER BY key: the rows of S as a sequence, ascending in key, ties by tb
RECURSIVE OrderBy(_, _, _)
OrderBy(S, key, tb) ==
    IF S = {} THEN << >>
    ELSE LET first == CHOOSE x \in S : \A y \in S \ {x} : Before(x, y, key, tb)
         IN  << first >> \o OrderBy(S \ {first}, key, tb)

\* class Meta of Season: ordering = ['competition', 'year', 'number']
SeasonOrdering ==
    [pk \in DOMAIN seasons |->
        << seasons[pk].competition, seasons[pk].year, seasons[pk].number >>]

\* class Meta of Series: ordering = ['submission_deadline']
SeriesOrdering ==
    [pk \in DOMAIN series |-> << series[pk].submission_deadline >>]

\* order_by('-submission_deadline')
SeriesOrderingDescending ==
    [pk \in DOMAIN series |-> << 0 - series[pk].submission_deadline >>]

\* competition.season_set
season_set(competition) ==
    { pk \in DOMAIN seasons : seasons[pk].competition = competition }

\* season.series_set
series_set_of(season) ==
    { pk \in DOMAIN series : series[pk].season = season }

\* problemset.problems.all()
problems_of(problemset) ==
    { p \in ProblemPks : << problemset, p >> \in problems }

\* problem.usersolution_set.all()
usersolution_set(problem) ==
    { pk \in DOMAIN usersolutions : usersolutions[pk].problem = problem }

(* A queryset over User: empty (none()), or the users joined to the         *)
(* usersolutions of `where`, one row per usersolution unless distinct.      *)
UsersNone == [none |-> TRUE, distinct |-> FALSE, where |-> {}]

\* User.objects.filter(usersolution__pk__in=solutions)
UsersFilter(solutions) == [none |-> FALSE, distinct |-> FALSE, where |-> solutions]

\* a | b: none() yields the other operand, otherwise the conditions are ORed
\* over the one join (both operands carry the same distinct flag here)
Or(a, b) ==
    IF a.none THEN b
    ELSE IF b.none THEN a
    ELSE [none |-> FALSE, distinct |-> a.distinct, where |-> a.where \cup b.where]

\* q.distinct()
Distinct(q) == [q EXCEPT !.distinct = TRUE]

\* The rows the caller sees when iterating q: each user with its multiplicity
Evaluate(q) ==
    LET rows(u) == { pk \in q.where : usersolutions[pk].user = u }
        found == IF q.none THEN {} ELSE { u \in Users : rows(u) # {} }
    IN  [u \in found |-> IF q.distinct THEN 1 ELSE Cardinality(rows(u))]

-----------------------------------------------------------------------------
(* The derived queries *)

\* Mutant: get_active_season with start__lte in place of start__lt
get_active_season_Lte(self, t, tb) ==
    LET season_candidates ==
            { pk \in season_set(self) : seasons[pk].start <= t /\ seasons[pk].end > t }
    IN  IF season_candidates # {}
        THEN OrderBy(season_candidates, SeasonOrdering, tb)[1]
        ELSE None

\* Competition.get_active_season (its two reads of now() fall in one instant)
get_active_season(self, t, tb) ==
    LET season_candidates ==
            { pk \in season_set(self) : seasons[pk].start < t /\ seasons[pk].end > t }
    IN  IF season_candidates # {}
        THEN OrderBy(season_candidates, SeasonOrdering, tb)[1]
        ELSE None

\* Mutant: the fallback of get_series_nearest_deadline without the '-' of
\* order_by('-submission_deadline')
get_series_nearest_deadline_Ascending(self, t, tb) ==
    LET active_series ==
            { pk \in series_set_of(self) : series[pk].submission_deadline > t }
    IN  IF active_series # {}
        THEN OrderBy(active_series, SeriesOrdering, tb)[1]
        ELSE IF series_set_of(self) # {}
             THEN OrderBy(series_set_of(self), SeriesOrdering, tb)[1]
             ELSE None

\* Season.get_series_nearest_deadline
get_series_nearest_deadline(self, t, tb) ==
    LET active_series ==
            { pk \in series_set_of(self) : series[pk].submission_deadline > t }
    IN  IF active_series # {}
        THEN OrderBy(active_series, SeriesOrdering, tb)[1]
        ELSE IF series_set_of(self) # {}
             THEN OrderBy(series_set_of(self), SeriesOrderingDescending, tb)[1]
             ELSE None

\* Mutant: is_nearest_deadline comparing the deadlines, not the series
is_nearest_deadline_ByDeadline(self, t, tb) ==
    LET nearest == get_series_nearest_deadline(series[self].season, t, tb)
    IN  series[self].submission_deadline = series[nearest].submission_deadline

\* Series.is_nearest_deadline: model instances are equal when their pks are
is_nearest_deadline(self, t, tb) ==
    self = get_series_nearest_deadline(series[self].season, t, tb)

\* The loop of Series.get_competitors over the problems of the problem set
RECURSIVE ProblemLoop(_, _)
ProblemLoop(todo, competitors) ==
    IF todo = {} THEN competitors
    ELSE LET problem == CHOOSE p \in todo : TRUE
             problemset_competitors == UsersFilter(usersolution_set(problem))
         IN  ProblemLoop(todo \ {problem}, Or(competitors, problemset_competitors))

\* Mutant: Series.get_competitors without its distinct()
Series_get_competitors_NoDistinct(self) ==
    IF series[self].problemset = None
    THEN [raised |-> AttributeError, competitors |-> UsersNone]
    ELSE [raised |-> NoError,
          competitors |-> ProblemLoop(problems_of(series[self].problemset), UsersNone)]

\* Series.get_competitors: self.problemset.problems fails on None
Series_get_competitors(self) ==
    IF series[self].problemset = None
    THEN [raised |-> AttributeError, competitors |-> UsersNone]
    ELSE [raised |-> NoError,
          competitors |->
              Distinct(ProblemLoop(problems_of(series[self].problemset), UsersNone))]

\* The loop of Season.get_competitors over the series of the season
RECURSIVE SeriesLoop(_, _)
SeriesLoop(todo, acc) ==
    IF todo = {} \/ acc.raised # NoError THEN acc
    ELSE LET s == CHOOSE pk \in todo : TRUE
             got == Series_get_competitors(s)
         IN  SeriesLoop(todo \ {s},
                        [raised |-> got.raised,
                         competitors |-> Or(acc.competitors, got.competitors)])

\* Season.get_competitors
Season_get_competitors(self) ==
    SeriesLoop(series_set_of(self), [raised |-> NoError, competitors |-> UsersNone])

-----------------------------------------------------------------------------
(* Actions *)

NoCall == [op |-> "none", arg |-> None, raised |-> NoError, result |-> None]

\* Time passes; what the last call returned belongs to the instant before
Tick ==
    /\ now < MaxTime
    /\ now' = now + 1
    /\ last' = NoCall
    /\ UNCHANGED stored

\* A caller builds or edits a Series and calls clean on it
Clean ==
    \E self \in Instances :
        /\ self.pk = None => Len(series) < Cardinality(SeriesPks)
        /\ LET out == clean(self, series, now)
           IN  /\ series' = out.series
               /\ last' = [op |-> "clean", arg |-> self.pk,
                           raised |-> out.raised, result |-> out.pk]
        /\ UNCHANGED << now, seasons, problemsets, problems, usersolutions >>

CallGetActiveSeason ==
    \E self \in CompetitionPks, tb \in TieBreaks(DOMAIN seasons) :
        /\ last' = [op |-> "get_active_season", arg |-> self, raised |-> NoError,
                    result |-> get_active_season(self, now, tb)]
        /\ UNCHANGED << now, stored >>

CallGetSeriesNearestDeadline ==
    \E self \in DOMAIN seasons, tb \in TieBreaks(DOMAIN series) :
        /\ last' = [op |-> "get_series_nearest_deadline", arg |-> self,
                    raised |-> NoError,
                    result |-> get_series_nearest_deadline(self, now, tb)]
        /\ UNCHANGED << now, stored >>

CallIsNearestDeadline ==
    \E self \in DOMAIN series, tb \in TieBreaks(DOMAIN series) :
        /\ last' = [op |-> "is_nearest_deadline", arg |-> self, raised |-> NoError,
                    result |-> is_nearest_deadline(self, now, tb)]
        /\ UNCHANGED << now, stored >>

\* Mutant: is_past_submission_deadline that also deactivates and saves a
\* series it finds past its deadline
CallIsPastSubmissionDeadline_Deactivating ==
    \E self \in DOMAIN series :
        LET past == is_past_submission_deadline(series[self], now)
        IN  /\ last' = [op |-> "is_past_submission_deadline", arg |-> self,
                        raised |-> NoError, result |-> past]
            /\ series' = IF past THEN [series EXCEPT ![self].is_active = FALSE]
                                 ELSE series
            /\ UNCHANGED << now, seasons, problemsets, problems, usersolutions >>

CallIsPastSubmissionDeadline ==
    \E self \in DOMAIN series :
        /\ last' = [op |-> "is_past_submission_deadline", arg |-> self,
                    raised |-> NoError,
                    result |-> is_past_submission_deadline(series[self], now)]
        /\ UNCHANGED << now, stored >>

CallSeriesGetCompetitors ==
    \E self \in DOMAIN series :
        /\ LET got == Series_get_competitors(self)
           IN  last' = [op |-> "Series.get_competitors", arg |-> self,
                        raised |-> got.raised, result |-> Evaluate(got.competitors)]
        /\ UNCHANGED << now, stored >>

CallSeasonGetCompetitors ==
    \E self \in DOMAIN seasons :
        /\ LET got == Season_get_competitors(self)
           IN  last' = [op |-> "Season.get_competitors", arg |-> self,
                        raised |-> got.raised, result |-> Evaluate(got.competitors)]
        /\ UNCHANGED << now, stored >>

-----------------------------------------------------------------------------
(* Specifications *)

SeasonRows ==
    [competition : CompetitionPks, year : Years, number : Numbers,
     start : Times, end : Times]

OneSeason ==
    << [competition |-> 1, year |-> 2013, number |-> 1, start |-> 0, end |-> MaxTime] >>

TwoSeasons ==
    << [competition |-> 1, year |-> 2013, number |-> 1, start |-> 0, end |-> MaxTime],
       [competition |-> 1, year |-> 2013, number |-> 2, start |-> 1, end |-> MaxTime] >>

TwoProblemSets == { << 1, 1 >>, << 1, 2 >>, << 2, 3 >> }

\* A site with one season and one problem set, and no series yet
Init ==
    /\ now = 0
    /\ seasons = OneSeason
    /\ series = << >>
    /\ problemsets = {1}
    /\ problems = { << 1, 1 >>, << 1, 2 >> }
    /\ usersolutions =
           << [user |-> "ann", problem |-> 1], [user |-> "ann", problem |-> 2],
              [user |-> "bob", problem |-> 2] >>
    /\ last = NoCall

Next ==
    \/ Tick
    \/ Clean
    \/ CallGetActiveSeason
    \/ CallGetSeriesNearestDeadline
    \/ CallIsNearestDeadline
    \/ CallIsPastSubmissionDeadline
    \/ CallSeriesGetCompetitors
    \/ CallSeasonGetCompetitors

Spec == Init /\ [][Next]_vars

\* Any Season table, for the queries over seasons
InitSeason ==
    /\ now = 0
    /\ seasons \in BoundedSeq(SeasonRows, Cardinality(CompetitionPks))
    /\ series = << >>
    /\ problemsets = {}
    /\ problems = {}
    /\ usersolutions = << >>
    /\ last = NoCall

NextSeason == Tick \/ CallGetActiveSeason

SpecSeason == InitSeason /\ [][NextSeason]_vars

\* The Series tables clean can have built by time 0, as far as the deadline
\* queries read them: any seasons and deadlines, numbers that do not collide
DeadlineTables ==
    { t \in BoundedSeq([season : {1, 2}, submission_deadline : Times], MaxSeries) : TRUE }

InitNearest ==
    /\ now = 0
    /\ seasons = TwoSeasons
    /\ \E t \in DeadlineTables :
           series = [pk \in DOMAIN t |->
                        [season |-> t[pk].season, number |-> pk, problemset |-> None,
                         submission_deadline |-> t[pk].submission_deadline,
                         is_active |-> FALSE]]
    /\ problemsets = {}
    /\ problems = {}
    /\ usersolutions = << >>
    /\ last = NoCall

NextNearest ==
    \/ Tick
    \/ CallGetSeriesNearestDeadline
    \/ CallIsNearestDeadline
    \/ CallIsPastSubmissionDeadline

SpecNearest == InitNearest /\ [][NextNearest]_vars

\* The Series tables clean can have built by time 0, as far as get_competitors
\* reads them (a problem set is linked to one series at most), and any
\* UserSolution table
CompetitorTables ==
    { t \in BoundedSeq([season : {1, 2}, problemset : {None, 1, 2}], Cardinality(SeriesPks)) :
        \A i, j \in DOMAIN t :
            (i # j /\ t[i].problemset # None) => t[i].problemset # t[j].problemset }

InitCompetitors ==
    /\ now = 0
    /\ seasons = TwoSeasons
    /\ \E t \in CompetitorTables :
           series = [pk \in DOMAIN t |->
                        [season |-> t[pk].season, number |-> pk,
                         problemset |-> t[pk].problemset,
                         submission_deadline |-> MaxTime, is_active |-> FALSE]]
    /\ problemsets = {1, 2}
    /\ problems = TwoProblemSets
    /\ usersolutions \in BoundedSeq([user : Users, problem : ProblemPks], MaxSolutions)
    /\ last = NoCall

NextCompetitors == CallSeriesGetCompetitors \/ CallSeasonGetCompetitors

SpecCompetitors == InitCompetitors /\ [][NextCompetitors]_vars

-----------------------------------------------------------------------------
(* Properties of Series.clean, under Spec *)

\* What clean returns and leaves stored when a caller hands it self now
CleanOutcome(self) == clean(self, series, now)

Rejected(self) ==
    /\ CleanOutcome(self).raised \in ValidationErrors
    /\ CleanOutcome(self).series = series

\* C1: clean on an active Series that lacks a submission deadline or lacks a
\* problem set raises a validation error and leaves the Series table as it was.
C1_ActiveNeedsDeadlineAndProblemset ==
    \A self \in Instances :
        (self.is_active /\ (self.submission_deadline = None \/ self.problemset = None))
            => Rejected(self)

\* An active Series with a deadline and no problem set has just been refused,
\* with rows in the table
C1_Witness ==
    /\ last.op = "clean"
    /\ last.raised = MsgProblemsetMissing
    /\ Len(series) > 0

\* C2: clean on an active Series whose submission deadline has passed
\* (now > submission_deadline) raises a validation error and leaves the Series
\* table as it was.
C2_ActiveNeedsOpenDeadline ==
    \A self \in Instances :
        (/\ self.is_active
         /\ self.submission_deadline # None
         /\ now > self.submission_deadline)
            => Rejected(self)

\* An active Series with a problem set has just been refused for its deadline
C2_Witness ==
    /\ last.op = "clean"
    /\ last.raised = MsgPastDeadline
    /\ now > 0

PassesGate(self) ==
    \/ ~self.is_active
    \/ /\ self.problemset # None
       /\ self.submission_deadline # None
       /\ ~(now > self.submission_deadline)

\* clean raised nothing and the table holds the fields of self: in its own
\* row when it had one, in a new row otherwise, the other rows as they were
Persisted(self) ==
    LET out == CleanOutcome(self)
    IN  /\ out.raised = NoError
        /\ out.pk \in DOMAIN out.series
        /\ out.series[out.pk] = Fields(self)
        /\ self.pk # None => out.pk = self.pk /\ Len(out.series) = Len(series)
        /\ self.pk = None => out.pk = Len(series) + 1 /\ Len(out.series) = Len(series) + 1
        /\ \A pk \in DOMAIN series : pk # out.pk => out.series[pk] = series[pk]

\* C9 as stated: clean on any Series that passes the gate raises no error and
\* itself persists the Series.
C9_Original ==
    \A self \in Instances : PassesGate(self) => Persisted(self)

\* C9 amended: clean on a Series that passes the gate and keeps the constraints
\* declared on the table (a deadline that is not NULL, a (season, number) no
\* other Series has, a problem set linked to no other Series) raises no error
\* and itself persists the Series.
C9_GatePassPersists ==
    \A self \in Instances :
        (/\ PassesGate(self)
         /\ ~NotNullViolation(self)
         /\ ~UniqueTogetherViolation(self, series)
         /\ ~OneToOneViolation(self, series))
            => Persisted(self)

\* clean has just stored an inactive Series with no problem set in a new row
C9_Witness ==
    /\ last.op = "clean"
    /\ last.raised = NoError
    /\ last.arg = None
    /\ ~series[last.result].is_active
    /\ series[last.result].problemset = None

-----------------------------------------------------------------------------
(* Properties of the deadline queries, under SpecNearest *)

Deadline(pk) == series[pk].submission_deadline

\* r is what the claim's three cases allow for a season whose series are S,
\* the series of `open` being those that still count as open
NearestAnswer(r, S, open) ==
    /\ S = {} => r = None
    /\ (S # {} /\ open = {}) =>
           r \in S /\ \A pk \in S : Deadline(pk) <= Deadline(r)
    /\ open # {} =>
           r \in open /\ \A pk \in open : Deadline(r) <= Deadline(pk)

\* C3 as stated: none for a season with no series; the series with the latest
\* deadline when every series is past its deadline (now > deadline); otherwise
\* the series with the earliest deadline among those not past their deadline.
C3_Original ==
    \A self \in DOMAIN seasons, tb \in TieBreaks(DOMAIN series) :
        NearestAnswer(get_series_nearest_deadline(self, now, tb),
                      series_set_of(self),
                      { pk \in series_set_of(self) : ~(now > Deadline(pk)) })

\* C3 amended: none for a season with no series; a series with the latest
\* deadline when no series has a deadline later than now; otherwise a series
\* with the earliest deadline among those whose deadline is later than now (a
\* series whose deadline is now counts as closed).
C3_NearestDeadline ==
    \A self \in DOMAIN seasons, tb \in TieBreaks(DOMAIN series) :
        NearestAnswer(get_series_nearest_deadline(self, now, tb),
                      series_set_of(self),
                      { pk \in series_set_of(self) : Deadline(pk) > now })

\* get_series_nearest_deadline has just passed over a series of the season
\* whose deadline is now and returned one whose deadline is later
C3_Witness ==
    /\ last.op = "get_series_nearest_deadline"
    /\ last.result # None
    /\ Deadline(last.result) > now
    /\ \E pk \in series_set_of(last.arg) : Deadline(pk) = now

-----------------------------------------------------------------------------
(* Properties of get_active_season, under SpecSeason *)

\* The seasons of a competition whose window contains now, both ends excluded
CurrentSeasons(competition) ==
    { pk \in DOMAIN seasons :
        /\ seasons[pk].competition = competition
        /\ seasons[pk].start < now
        /\ now < seasons[pk].end }

\* C4: get_active_season returns a season of the competition only when
\* start < now < end, returns none exactly when the competition has no such
\* season, and with several such seasons returns one of them.
C4_ActiveSeason ==
    \A self \in CompetitionPks, tb \in TieBreaks(DOMAIN seasons) :
        LET r == get_active_season(self, now, tb)
        IN  /\ r # None => r \in CurrentSeasons(self)
            /\ r = None <=> CurrentSeasons(self) = {}

\* get_active_season has just returned one of two seasons of the competition
\* that both contain now
C4_Witness ==
    /\ last.op = "get_active_season"
    /\ last.result # None
    /\ Cardinality(CurrentSeasons(last.arg)) = 2

-----------------------------------------------------------------------------
(* Properties of get_competitors, under SpecCompetitors *)

\* The users with a solution to a problem of one of the problem sets
Submitters(sets) ==
    { u \in Users :
        \E pk \in DOMAIN usersolutions :
            /\ usersolutions[pk].user = u
            /\ \E ps \in sets : << ps, usersolutions[pk].problem >> \in problems }

\* The rows hold exactly the users of `expected`, each once
EachOnce(rows, expected) ==
    /\ DOMAIN rows = expected
    /\ \A u \in DOMAIN rows : rows[u] = 1

\* C5: for a Series with a problem set, get_competitors returns exactly the
\* users who submitted a solution to a problem of the set, each once.
C5_SeriesCompetitors ==
    \A self \in DOMAIN series :
        series[self].problemset # None =>
            LET got == Series_get_competitors(self)
            IN  /\ got.raised = NoError
                /\ EachOnce(Evaluate(got.competitors),
                            Submitters({series[self].problemset}))

\* Series.get_competitors has just returned a user who has solutions to two
\* problems of the set, and two solutions to one of them
C5_Witness ==
    /\ last.op = "Series.get_competitors"
    /\ last.raised = NoError
    /\ \E a, b, c \in DOMAIN usersolutions :
           /\ a # b /\ b # c /\ a # c
           /\ usersolutions[a].user \in DOMAIN last.result
           /\ usersolutions[b].user = usersolutions[a].user
           /\ usersolutions[c].user = usersolutions[a].user
           /\ usersolutions[a].problem = usersolutions[b].problem
           /\ usersolutions[a].problem # usersolutions[c].problem
           /\ << series[last.arg].problemset, usersolutions[a].problem >> \in problems
           /\ << series[last.arg].problemset, usersolutions[c].problem >> \in problems

\* C6: for every Season, one with a series that has no problem set and one
\* with no series included, Season.get_competitors raises nothing and returns
\* exactly the users who submitted a solution to a problem of a series of the
\* season, each once.
C6_SeasonCompetitors ==
    \A self \in DOMAIN seasons :
        LET got == Season_get_competitors(self)
            sets == { series[pk].problemset : pk \in series_set_of(self) } \ {None}
        IN  /\ got.raised = NoError
            /\ EachOnce(Evaluate(got.competitors), Submitters(sets))

-----------------------------------------------------------------------------
(* The queries write nothing and answer for the state they are called in,   *)
(* under Spec                                                               *)

QueryOps ==
    { "get_active_season", "get_series_nearest_deadline", "is_nearest_deadline",
      "is_past_submission_deadline", "Series.get_competitors",
      "Season.get_competitors" }

OpenSeries(season) == { pk \in series_set_of(season) : Deadline(pk) > now }

\* What last holds is the answer of its query for the tables and the time of
\* this state (a get_competitors that raised has no answer)
AnswersForThisState ==
    CASE last.op = "get_active_season" ->
            /\ last.result # None => last.result \in CurrentSeasons(last.arg)
            /\ last.result = None <=> CurrentSeasons(last.arg) = {}
      [] last.op = "get_series_nearest_deadline" ->
            NearestAnswer(last.result, series_set_of(last.arg), OpenSeries(last.arg))
      [] last.op = "is_nearest_deadline" ->
            LET season == series[last.arg].season
            IN  \E r \in series_set_of(season) :
                    /\ NearestAnswer(r, series_set_of(season), OpenSeries(season))
                    /\ last.result = (r = last.arg)
      [] last.op = "is_past_submission_deadline" ->
            last.result = (now > Deadline(last.arg))
      [] last.op = "Series.get_competitors" ->
            last.raised = NoError =>
                EachOnce(last.result, Submitters({series[last.arg].problemset}))
      [] last.op = "Season.get_competitors" ->
            last.raised = NoError =>
                EachOnce(last.result,
                         Submitters({ series[pk].problemset :
                                        pk \in series_set_of(last.arg) }))
      [] OTHER -> TRUE

\* C8: a step that calls one of the derived queries leaves the stored
\* Seasons, Series, problem sets and solutions as they were, and what it
\* returns is the answer for the tables and the time of the call, whatever
\* was stored or returned before.
C8_QueriesReadOnlyAndFresh ==
    [][last'.op \in QueryOps => (UNCHANGED stored /\ AnswersForThisState')]_vars

\* is_past_submission_deadline has just answered TRUE for a series stored
\* before its deadline: the time has changed between the save and the call
C8_Witness ==
    /\ last.op = "is_past_submission_deadline"
    /\ last.result = TRUE
    /\ series[last.arg].is_active
    /\ Len(series) = 2

=============================================================================
